---- MODULE Spec2Model ----
(***************************************************************************)
(* Model of the RAG initialisation-and-query pipeline of src/src/rag.py,   *)
(* with the helpers of src/src/helper.py and src/src/config.py it calls.   *)
(* Several initialisation runs (processes started against the same remote  *)
(* index) interleave at their remote calls; each run then answers queries  *)
(* with the handle it obtained.                                            *)
(***************************************************************************)
EXTENDS Integers, Sequences, FiniteSets, TLC

(* ---------------------------- bounds ---------------------------------- *)
NumRuns == 2          \* concurrent initialisation runs
MaxDocs == 2          \* pages the data directory can hold
MaxHits == 2          \* matches the remote index returns for one query
SeedCount == 3        \* entry count of an index that is populated at start

(* ------------------------ program constants --------------------------- *)
chunk_size == 500
chunk_overlap == 20
score_threshold == 75          \* 0.75, in hundredths

Runs == 1..NumRuns

None == "None"                 \* os.getenv of an unset variable / a null handle
EnvVals == {None, "", "key"}
PINECONE_API_KEY == "PINECONE_API_KEY"
OPENROUTER_API_KEY == "OPENROUTER_API_KEY"
EnvKeys == {PINECONE_API_KEY, OPENROUTER_API_KEY}

DocLens == {0, 700}            \* text length of a loaded page (0: no extractable text)
Absent == [exists |-> FALSE, pages |-> <<>>]
RECURSIVE SeqsUpTo(_, _)
SeqsUpTo(S, n) ==
    IF n = 0 THEN {<<>>}
    ELSE LET shorter == SeqsUpTo(S, n - 1)
         IN  shorter \cup {Append(s, x) : s \in {t \in shorter : Len(t) = n - 1}, x \in S}
DataDirs == {Absent} \cup {[exists |-> TRUE, pages |-> s] : s \in SeqsUpTo(DocLens, MaxDocs)}

ScoreVals == {74, 75, 90}      \* similarity of a match, in hundredths

VARIABLES
    env,          \* environment variables: key -> value
    dataDir,      \* the data directory: absent, or the pages of its PDFs
    indexExists,  \* the remote index "medical-chatbot-1" exists
    indexCount,   \* its total_vector_count
    pc,           \* per run: the step of initialize_rag_system it is at
    vector_count, \* per run: the count read by describe_index_stats
    chunks,       \* per run: len(text_chunks) handed to create_vectorstore
    calls,        \* per run: the external calls made so far
    inserted,     \* per run: entries this run added to the index
    failed,       \* per run: the steps of this run that failed
    result,       \* per run: the pair initialize_rag_system returned
    query,        \* the last query: the run asked, what the index matched
    resp          \* the result get_rag_response gave for it

vars == <<env, dataDir, indexExists, indexCount, pc, vector_count, chunks,
          calls, inserted, failed, result, query, resp>>

shared == <<env, dataDir>>

(* ------------------------------ messages ------------------------------ *)
Msg(prefix, text, var, n, m) ==
    [prefix |-> prefix, text |-> text, var |-> var, n |-> n, m |-> m]

NoResult == [returned |-> FALSE, raised |-> FALSE, handle |-> None,
             msg |-> Msg("", "", "", 0, 0)]
Return(handle, msg) ==
    [returned |-> TRUE, raised |-> FALSE, handle |-> handle, msg |-> msg]
Propagate(exc) ==
    [returned |-> FALSE, raised |-> TRUE, handle |-> None,
     msg |-> Msg("", exc.text, exc.var, 0, 0)]

\* exceptions: cls is the Python class, text/var what str(e) says
MissingEnv(key) == [cls |-> "ValueError", text |-> "Missing environment variable", var |-> key]
ServiceError == [cls |-> "Exception", text |-> "service error", var |-> ""]
AttributeError == [cls |-> "AttributeError", text |-> "'NoneType' object has no attribute 'invoke'", var |-> ""]

(* ------------------------------ config.py ----------------------------- *)
GetEnvVarNoneOnly(key) ==
    IF env[key] = None THEN [ok |-> FALSE, exc |-> MissingEnv(key)]
    ELSE [ok |-> TRUE, exc |-> ServiceError]

\* get_env_var: `if not value` rejects both an unset and an empty variable
get_env_var(key) ==
    IF env[key] = None \/ env[key] = "" THEN [ok |-> FALSE, exc |-> MissingEnv(key)]
    ELSE [ok |-> TRUE, exc |-> ServiceError]

\* get_chat_model: ChatOpenAI(api_key=SecretStr(get_env_var("OPENROUTER_API_KEY")), ...)
get_chat_model == get_env_var(OPENROUTER_API_KEY)

(* ------------------------------ helper.py ----------------------------- *)
\* load_pdf_files: one Document per page of every *.pdf of the directory
load_pdf_files(dir) == dir.pages

\* chunks of one page: none for a page without text, else windows of
\* chunk_size characters that overlap by chunk_overlap
ChunksOf(len) ==
    IF len = 0 THEN 0
    ELSE IF len <= chunk_size THEN 1
    ELSE 1 + ((len - chunk_size) + (chunk_size - chunk_overlap) - 1)
                 \div (chunk_size - chunk_overlap)

RECURSIVE text_split(_)
text_split(documents) ==
    IF documents = <<>> THEN 0
    ELSE ChunksOf(Head(documents)) + text_split(Tail(documents))

(* ------------------------------- rag.py ------------------------------- *)
\* validate_api_keys: only PINECONE_API_KEY is looked at
validate_api_keys ==
    LET r == get_env_var(PINECONE_API_KEY)
    IN  IF r.ok THEN [valid |-> TRUE, error |-> r.exc] ELSE [valid |-> FALSE, error |-> r.exc]

IndexIsEmptyAlways(count) == TRUE

\* `if vector_count == 0:` of initialize_rag_system
IndexIsEmpty(count) == count = 0

PopulateNoDirCheck(dir) ==
    IF load_pdf_files(dir) = <<>>
    THEN [success |-> FALSE, did |-> {"load_pdf"},
          message |-> Msg("", "No PDF files found in the data directory!", "", 0, 0)]
    ELSE [success |-> TRUE, did |-> {"load_pdf", "text_split"},
          message |-> Msg("", "Successfully processed", "",
                          Len(load_pdf_files(dir)), text_split(load_pdf_files(dir)))]

\* populate_vector_store up to the call of create_vectorstore: the directory
\* check, the load, the empty check and the split (did: the steps it ran;
\* message.n documents, message.m chunks)
PopulatePrepare(dir) ==
    IF ~dir.exists
    THEN [success |-> FALSE, did |-> {},
          message |-> Msg("", "Data directory not found", "", 0, 0)]
    ELSE IF load_pdf_files(dir) = <<>>
    THEN [success |-> FALSE, did |-> {"load_pdf"},
          message |-> Msg("", "No PDF files found in the data directory!", "", 0, 0)]
    ELSE [success |-> TRUE, did |-> {"load_pdf", "text_split"},
          message |-> Msg("", "Successfully processed", "",
                          Len(load_pdf_files(dir)), text_split(load_pdf_files(dir)))]

ExceptValueErrorOnly(exc) ==
    IF exc.cls = "ValueError"
    THEN Return(None, Msg("Error initializing RAG system", exc.text, exc.var, 0, 0))
    ELSE Propagate(exc)

\* `except Exception as e:` of initialize_rag_system
ExceptHandler(exc) ==
    Return(None, Msg("Error initializing RAG system", exc.text, exc.var, 0, 0))

\* one step of a run that fails: the exception reaches the handler
Fail(p, exc, step, call) ==
    /\ pc' = [pc EXCEPT ![p] = "done"]
    /\ result' = [result EXCEPT ![p] = ExceptHandler(exc)]
    /\ calls' = [calls EXCEPT ![p] = @ \cup call]
    /\ failed' = [failed EXCEPT ![p] = @ \cup {step}]

Goto(p, next, call) ==
    /\ pc' = [pc EXCEPT ![p] = next]
    /\ calls' = [calls EXCEPT ![p] = @ \cup call]
    /\ UNCHANGED <<result, failed>>

\* the retriever of create_retriever: search_type "similarity_score_threshold"
\* keeps the matches whose score is at least the threshold
RetrieveLowThreshold(hits) == SelectSeq(hits, LAMBDA s : s >= score_threshold - 5)

Retrieve(hits) == SelectSeq(hits, LAMBDA s : s >= score_threshold)

\* rag_chain.invoke({"input": query}): the retrieval chain puts the retrieved
\* documents under "context" and the model's text under "answer"
Invoke(handle, hits, serviceOk, withContext) ==
    IF handle = None THEN [raised |-> TRUE, exc |-> AttributeError, response |-> [input |-> "query"]]
    ELSE IF ~serviceOk THEN [raised |-> TRUE, exc |-> ServiceError, response |-> [input |-> "query"]]
    ELSE [raised |-> FALSE, exc |-> ServiceError,
          response |-> IF withContext
                       THEN [input |-> "query", context |-> Retrieve(hits), answer |-> "answer"]
                       ELSE [input |-> "query", answer |-> "answer"]]

no_docs_msg == "I couldn't find relevant information in the medical knowledge base"

GetRagResponseErrorAsNoContext(out) ==
    IF out.raised
    THEN [success |-> FALSE, error |-> out.exc.text, no_context |-> TRUE]
    ELSE IF "context" \in DOMAIN out.response /\ out.response.context # <<>>
    THEN [success |-> TRUE, answer |-> out.response.answer, context |-> out.response.context]
    ELSE [success |-> FALSE, error |-> no_docs_msg, no_context |-> TRUE]

\* get_rag_response, given what rag_chain.invoke did
GetRagResponse(out) ==
    IF out.raised
    THEN [success |-> FALSE, error |-> out.exc.text, no_context |-> FALSE]
    ELSE IF "context" \in DOMAIN out.response /\ out.response.context # <<>>
    THEN [success |-> TRUE, answer |-> out.response.answer, context |-> out.response.context]
    ELSE [success |-> FALSE, error |-> no_docs_msg, no_context |-> TRUE]

NoQuery == [run |-> 0, hits |-> <<>>, serviceOk |-> TRUE, withContext |-> TRUE]

Min(a, b) == IF a < b THEN a ELSE b

Init ==
    /\ env \in [EnvKeys -> EnvVals]
    /\ dataDir \in DataDirs
    /\ indexExists \in BOOLEAN
    /\ indexCount \in (IF indexExists THEN {0, SeedCount} ELSE {0})
    /\ pc = [p \in Runs |-> "validate"]
    /\ vector_count = [p \in Runs |-> 0]
    /\ chunks = [p \in Runs |-> 0]
    /\ calls = [p \in Runs |-> {}]
    /\ inserted = [p \in Runs |-> 0]
    /\ failed = [p \in Runs |-> {}]
    /\ result = [p \in Runs |-> NoResult]
    /\ query = NoQuery
    /\ resp = [none |-> TRUE]

\* rag.py 98-101
Validate(p) ==
    /\ pc[p] = "validate"
    /\ IF validate_api_keys.valid
       THEN Goto(p, "init_pinecone", {})
       ELSE /\ pc' = [pc EXCEPT ![p] = "done"]
            /\ result' = [result EXCEPT ![p] =
                   Return(None, Msg("API validation failed", validate_api_keys.error.text,
                                    validate_api_keys.error.var, 0, 0))]
            /\ failed' = [failed EXCEPT ![p] = {"validate"}]
            /\ UNCHANGED calls
    /\ UNCHANGED <<shared, indexExists, indexCount, vector_count, chunks, inserted, query, resp>>

\* helper.py init_pinecone: the client
InitPinecone(p) ==
    /\ pc[p] = "init_pinecone"
    /\ \E ok \in BOOLEAN :
          IF ok THEN Goto(p, "has_index", {"client"}) ELSE Fail(p, ServiceError, "client", {"client"})
    /\ UNCHANGED <<shared, indexExists, indexCount, vector_count, chunks, inserted, query, resp>>

\* helper.py create_or_load_index: pc.has_index
HasIndex(p) ==
    /\ pc[p] = "has_index"
    /\ \E ok \in BOOLEAN :
          IF ok
          THEN Goto(p, IF indexExists THEN "describe" ELSE "create_index", {"has_index"})
          ELSE Fail(p, ServiceError, "has_index", {"has_index"})
    /\ UNCHANGED <<shared, indexExists, indexCount, vector_count, chunks, inserted, query, resp>>

\* helper.py create_or_load_index: pc.create_index (refused when the name exists)
CreateIndex(p) ==
    /\ pc[p] = "create_index"
    /\ \E ok \in BOOLEAN :
          IF ok /\ ~indexExists
          THEN /\ Goto(p, "describe", {"create_index"})
               /\ indexExists' = TRUE
          ELSE /\ Fail(p, ServiceError, "create_index", {"create_index"})
               /\ UNCHANGED indexExists
    /\ UNCHANGED <<shared, indexCount, vector_count, chunks, inserted, query, resp>>

\* rag.py setup_pinecone_index: pc.Index + describe_index_stats
DescribeStats(p) ==
    /\ pc[p] = "describe"
    /\ \E ok \in BOOLEAN :
          IF ok
          THEN /\ Goto(p, "embeddings", {"describe_stats"})
               /\ vector_count' = [vector_count EXCEPT ![p] = indexCount]
          ELSE /\ Fail(p, ServiceError, "describe_stats", {"describe_stats"})
               /\ UNCHANGED vector_count
    /\ UNCHANGED <<shared, indexExists, indexCount, chunks, inserted, query, resp>>

\* rag.py setup_embeddings, then the branch on vector_count (rag.py 107-110)
SetupEmbeddings(p) ==
    /\ pc[p] = "embeddings"
    /\ \E ok \in BOOLEAN :
          IF ~ok THEN Fail(p, ServiceError, "embeddings", {"embeddings"})
          ELSE Goto(p, IF IndexIsEmpty(vector_count[p]) THEN "populate" ELSE "connect",
                    {"embeddings"})
    /\ UNCHANGED <<shared, indexExists, indexCount, vector_count, chunks, inserted, query, resp>>

\* rag.py populate_vector_store up to its call of create_vectorstore, and the
\* `if not success` of initialize_rag_system; the PDF loader may raise
Populate(p) ==
    /\ pc[p] = "populate"
    /\ \E ok \in BOOLEAN :
          IF ~PopulatePrepare(dataDir).success THEN
              /\ pc' = [pc EXCEPT ![p] = "done"]
              /\ result' = [result EXCEPT ![p] =
                     Return(None, Msg("Failed to populate vector store",
                                      PopulatePrepare(dataDir).message.text, "", 0, 0))]
              /\ calls' = [calls EXCEPT ![p] = @ \cup PopulatePrepare(dataDir).did]
              /\ failed' = [failed EXCEPT ![p] = {"populate"}]
              /\ UNCHANGED chunks
          ELSE IF ~ok THEN
              /\ Fail(p, ServiceError, "load_pdf", {"load_pdf"})
              /\ UNCHANGED chunks
          ELSE
              /\ Goto(p, "bulk_insert", PopulatePrepare(dataDir).did)
              /\ chunks' = [chunks EXCEPT ![p] = PopulatePrepare(dataDir).message.m]
    /\ UNCHANGED <<shared, indexExists, indexCount, vector_count, inserted, query, resp>>

\* helper.py create_vectorstore: PineconeVectorStore.from_documents; a failure
\* may leave any part of the chunks inserted
BulkInsert(p) ==
    /\ pc[p] = "bulk_insert"
    /\ \E ok \in BOOLEAN :
          IF ok
          THEN /\ Goto(p, "connect", {"bulk_insert"})
               /\ indexCount' = indexCount + chunks[p]
               /\ inserted' = [inserted EXCEPT ![p] = chunks[p]]
          ELSE \E k \in 0..chunks[p] :
               /\ Fail(p, ServiceError, "bulk_insert", {"bulk_insert"})
               /\ indexCount' = indexCount + k
               /\ inserted' = [inserted EXCEPT ![p] = k]
    /\ UNCHANGED <<shared, indexExists, vector_count, chunks, query, resp>>

\* rag.py create_vector_store_connection
Connect(p) ==
    /\ pc[p] = "connect"
    /\ \E ok \in BOOLEAN :
          IF ok THEN Goto(p, "rag_chain", {"connect"}) ELSE Fail(p, ServiceError, "connect", {"connect"})
    /\ UNCHANGED <<shared, indexExists, indexCount, vector_count, chunks, inserted, query, resp>>

\* rag.py create_retriever, create_rag_chain and the final return
CreateRagChain(p) ==
    /\ pc[p] = "rag_chain"
    /\ IF get_chat_model.ok
       THEN /\ pc' = [pc EXCEPT ![p] = "done"]
            /\ result' = [result EXCEPT ![p] =
                   Return("rag_chain", Msg("RAG system initialized successfully. Vectors in index",
                                           "", "", vector_count[p], 0))]
            /\ calls' = [calls EXCEPT ![p] = @ \cup {"chat_model"}]
            /\ UNCHANGED failed
       ELSE Fail(p, get_chat_model.exc, "chat_model", {})
    /\ UNCHANGED <<shared, indexExists, indexCount, vector_count, chunks, inserted, query, resp>>

\* a query answered by run p with the handle its initialisation returned
Query(p) ==
    /\ pc[p] = "done"
    /\ result[p].returned
    /\ \E hits \in SeqsUpTo(ScoreVals, Min(indexCount, MaxHits)),
          serviceOk \in BOOLEAN, withContext \in BOOLEAN :
          /\ query' = [run |-> p, hits |-> hits, serviceOk |-> serviceOk,
                       withContext |-> withContext]
          /\ resp' = GetRagResponse(Invoke(result[p].handle, hits, serviceOk, withContext))
    /\ UNCHANGED <<shared, indexExists, indexCount, pc, vector_count, chunks, calls,
                   inserted, failed, result>>

\* one step of initialize_rag_system by run p
Step(p) ==
    \/ Validate(p)
    \/ InitPinecone(p)
    \/ HasIndex(p)
    \/ CreateIndex(p)
    \/ DescribeStats(p)
    \/ SetupEmbeddings(p)
    \/ Populate(p)
    \/ BulkInsert(p)
    \/ Connect(p)
    \/ CreateRagChain(p)

\* initialisation runs started against the same index, overlapping in time
Next == \E p \in Runs : Step(p)

Spec == Init /\ [][Next]_vars

\* one process: it initialises, then serves queries with the handle it got
Serving == {1}
QueryNext == \E p \in Serving : Step(p) \/ Query(p)

QuerySpec == Init /\ [][QueryNext]_vars

(* ------------------------------ properties ---------------------------- *)
Missing(key) == env[key] = None \/ env[key] = ""
IngestionCalls == {"load_pdf", "text_split", "bulk_insert"}
RemoteCalls == {"client", "has_index", "create_index", "describe_stats",
                "bulk_insert", "connect", "chat_model"}
Finished(p) == pc[p] = "done"
Succeeded(p) == Finished(p) /\ result[p].returned /\ result[p].handle # None
\* run p read the count of the index and went on to the branch on it
ReadCount(p) == "embeddings" \in calls[p] \ failed[p]

\* C1: initialize_rag_system never lets an exception escape: a run in which
\* any step failed has returned (None, message), and a run returns a non-None
\* handle only when every step it needed succeeded.
C1_InitNeverThrows ==
    \A p \in Runs :
        /\ ~result[p].raised
        /\ Finished(p) => result[p].returned
        /\ failed[p] # {} =>
              /\ Finished(p) /\ result[p].returned
              /\ result[p].handle = None
              /\ result[p].msg.prefix # ""
        /\ (result[p].returned /\ result[p].handle # None) =>
              /\ failed[p] = {}
              /\ ~Missing(PINECONE_API_KEY) /\ ~Missing(OPENROUTER_API_KEY)
              /\ {"client", "has_index", "describe_stats", "embeddings",
                  "connect", "chat_model"} \subseteq calls[p]
              /\ vector_count[p] = 0 =>
                    "bulk_insert" \in calls[p] /\ inserted[p] = chunks[p]

\* a run whose bulk insert failed part-way has returned (None, message)
C1_Witness ==
    \E p \in Runs :
        /\ failed[p] = {"bulk_insert"} /\ inserted[p] > 0
        /\ result[p].returned /\ result[p].handle = None
        /\ \E q \in Runs : Succeeded(q)

\* C2: a run that read a nonzero entry count performs no ingestion: it never
\* loads, splits or inserts, and none of its steps changes the entry count.
C2_NoReingest ==
    [][\A p \in Runs :
          (vector_count'[p] # 0 /\ pc'[p] # pc[p]) =>
              /\ indexCount' = indexCount
              /\ calls'[p] \cap IngestionCalls = {}
              /\ inserted'[p] = 0]_vars

C2_Witness ==
    \E p \in Runs : Succeeded(p) /\ vector_count[p] # 0 /\ indexCount = vector_count[p]

\* C3: over all the runs against an index, overlapping or not, at most one
\* bulk insert adds entries to it.
C3_AtMostOneBulkInsert ==
    Cardinality({p \in Runs : inserted[p] > 0}) <= 1

\* C4: with PINECONE_API_KEY unset or empty, a run that has started has
\* returned (None, "API validation failed: ... PINECONE_API_KEY") and has made
\* no external call at all.
C4_MissingPineconeKey ==
    \A p \in Runs :
        (Missing(PINECONE_API_KEY) /\ pc[p] # "validate") =>
            /\ Finished(p) /\ result[p].returned /\ result[p].handle = None
            /\ result[p].msg.prefix = "API validation failed"
            /\ result[p].msg.text = "Missing environment variable"
            /\ result[p].msg.var = PINECONE_API_KEY
            /\ calls[p] = {}

C4_Witness ==
    \E p \in Runs : env[PINECONE_API_KEY] = "" /\ Finished(p) /\ failed[p] = {"validate"}

\* C5: every required credential is validated before the remote index is
\* touched: with either one missing, a run that is past its validation has
\* failed with an error naming a missing variable, and has neither connected
\* to the index nor created or populated it.
C5_CredentialsBeforeConnect ==
    \A p \in Runs :
        ((\E k \in EnvKeys : Missing(k)) /\ pc[p] # "validate") =>
            /\ Finished(p) /\ result[p].returned /\ result[p].handle = None
            /\ result[p].msg.var \in {k \in EnvKeys : Missing(k)}
            /\ calls[p] \cap {"has_index", "create_index", "describe_stats",
                              "bulk_insert", "connect"} = {}
            /\ inserted[p] = 0

\* C6: a run that found the index empty while the data directory does not
\* exist has returned (None, "Failed to populate vector store: Data directory
\* not found"), has loaded, split and inserted nothing, and the index is empty.
C6_DataDirAbsent ==
    \A p \in Runs :
        (ReadCount(p) /\ vector_count[p] = 0 /\ ~dataDir.exists /\ pc[p] # "populate") =>
            /\ Finished(p) /\ result[p].returned /\ result[p].handle = None
            /\ result[p].msg.prefix = "Failed to populate vector store"
            /\ result[p].msg.text = "Data directory not found"
            /\ calls[p] \cap IngestionCalls = {}
            /\ inserted[p] = 0
            /\ indexCount = 0

C6_Witness ==
    \E p \in Runs :
        ReadCount(p) /\ vector_count[p] = 0 /\ ~dataDir.exists /\ Finished(p)
        /\ "create_index" \in calls[p]

\* a query was asked; rag_chain.invoke returned for it; nothing it matched
\* reaches the threshold
Asked == query.run # 0
InvokeReturned == Asked /\ result[query.run].handle # None /\ query.serviceOk
NothingRelevant ==
    \/ ~query.withContext
    \/ \A i \in 1..Len(query.hits) : query.hits[i] < score_threshold

\* C7: a query whose retrieval yields no match at or above the threshold (or
\* no context at all) gets the fixed advisory, success false, no_context true,
\* and neither source chunks nor an answer.
C7_NoContextAdvisory ==
    (InvokeReturned /\ NothingRelevant) =>
        /\ resp = [success |-> FALSE, error |-> no_docs_msg, no_context |-> TRUE]
        /\ "context" \notin DOMAIN resp
        /\ "answer" \notin DOMAIN resp

C7_Witness ==
    /\ InvokeReturned /\ query.withContext
    /\ query.hits = <<74, 74>>
    /\ resp.no_context

\* the three result shapes of get_rag_response
IsSuccess(r) ==
    /\ DOMAIN r = {"success", "answer", "context"}
    /\ r.success /\ r.context # <<>>
IsNoContext(r) ==
    /\ DOMAIN r = {"success", "error", "no_context"}
    /\ ~r.success /\ r.no_context /\ r.error = no_docs_msg
IsServiceError(r) ==
    /\ DOMAIN r = {"success", "error", "no_context"}
    /\ ~r.success /\ ~r.no_context

\* C8: every query gets exactly one of the three results; an exception of
\* rag_chain.invoke gives success false, no_context false and the exception
\* text, which the no_context flag tells apart from the advisory.
C8_QueryNeverThrows ==
    Asked =>
        /\ IsSuccess(resp) \/ IsNoContext(resp) \/ IsServiceError(resp)
        /\ ~(IsSuccess(resp) /\ IsNoContext(resp))
        /\ ~(IsNoContext(resp) /\ IsServiceError(resp))
        /\ ~InvokeReturned <=> IsServiceError(resp)
        /\ (result[query.run].handle # None /\ ~query.serviceOk) =>
              resp = [success |-> FALSE, error |-> ServiceError.text, no_context |-> FALSE]
        /\ result[query.run].handle = None =>
              resp = [success |-> FALSE, error |-> AttributeError.text, no_context |-> FALSE]

C8_Witness ==
    /\ Asked /\ result[query.run].handle # None /\ ~query.serviceOk
    /\ query.hits # <<>>
    /\ IsServiceError(resp)

\* C9: a run that populated an empty index inserted at least as many chunks
\* as it loaded documents and left the index nonempty; whenever a run returns
\* a non-None handle the index is nonempty.
C9_PopulatedAfterInit ==
    \A p \in Runs :
        Succeeded(p) =>
            /\ indexCount > 0
            /\ vector_count[p] = 0 =>
                  /\ inserted[p] >= Len(load_pdf_files(dataDir))
                  /\ inserted[p] > 0

\* C10: the count in the success message is the count read before ingestion:
\* after a first-time population it is 0 although the index is nonempty, and
\* it equals the actual count at return only when the index was nonempty.
C10_ReportedCountIsStale ==
    [][\A p \in Runs :
          (pc[p] = "rag_chain" /\ Succeeded(p)') =>
              /\ result'[p].msg.n = vector_count[p]
              /\ vector_count[p] = 0 => (result'[p].msg.n = 0 /\ indexCount' > 0)
              /\ result'[p].msg.n = indexCount' => vector_count[p] # 0]_vars
====
